---- MODULE Spec2Model ----
(***************************************************************************)
(* Espruino Storage / StorageFile (src/src/jswrap_storage.c).              *)
(*                                                                         *)
(* The StorageFile operations (open, read, readLine, write, erase) are     *)
(* translated from jswrap_storage.c.  The journal store they call          *)
(* (jsfFindFile, jsfWriteFile, jsfEraseFile, jsfCompact, the flash driver) *)
(* lives in jsflash.c, which is not part of src/; it is modelled from      *)
(* spec.md section 4.1 and section 6.                                      *)
(***************************************************************************)
EXTENDS Integers, Sequences, FiniteSets, TLC

VARIABLES
    STORAGEFILE_CHUNKSIZE, \* build constant: FLASH_PAGE_SIZE - sizeof(JsfFileHeader)
    flashPages,            \* number of flash pages of the managed region
    journal,               \* record headers, in journal order
    mem,                   \* flash bytes, address a is mem[a]
    f,                     \* the StorageFile object (name, chunk, offset, addr, mode)
    exception,             \* the error raised by the last call ("" if none)
    expect,                \* the bytes the caller has appended to the stream
    rlog,                  \* the bytes returned since the handle was opened
    wonly,                 \* expect holds exactly the writes made through one 'w' handle,
                           \* none of them refused for lack of space
    nwrites,               \* number of StorageFile.write calls made
    op,                    \* the last call made ("" before the first)
    run                    \* the call in progress: its position and its local variables

vars == <<STORAGEFILE_CHUNKSIZE, flashPages, journal, mem, f, exception, expect, rlog, wonly,
          nwrites, op, run>>

-----------------------------------------------------------------------------
(* Program constants *)

JSF_NAME_LEN == 8
MAX_CHUNK == 255
ERASED == 255
NEWLINE == 10
READ_BUF == 32
OPEN_BUF == 64
MODE_R == 114
MODE_W == 119
MODE_A == 97

(* Bounds of the model *)

HeaderSize == 1
SmallChunk == 2
BigChunk == 34
FlashPages == 3
PrefillChunks == 254
MaxWrites == 3
MaxStoreWrites == 4
WideChunk == 66
MaxStepWrites == 2

-----------------------------------------------------------------------------
(* Helpers *)

Min(a, b) == IF a < b THEN a ELSE b

RECURSIVE BitAnd(_, _)
BitAnd(a, b) ==
    IF a = 0 \/ b = 0 THEN 0
    ELSE (a % 2) * (b % 2) + 2 * BitAnd(a \div 2, b \div 2)

SubSeqFrom(s, n) == SubSeq(s, n + 1, Len(s))

Take(s, n) == SubSeq(s, 1, Min(n, Len(s)))

\* F(v), with v evaluated once
Bind(v, F(_)) == CHOOSE r \in {F(x) : x \in {v}} : TRUE

-----------------------------------------------------------------------------
(* Flash driver and journal store *)

PageSize == STORAGEFILE_CHUNKSIZE + HeaderSize

FlashSize == flashPages * PageSize

\* jshFlashRead(buf, addr, len)
FlashRead(m, addr, len) == [i \in 1..len |-> m[addr + i - 1]]

\* jshFlashWrite(data, addr): programming can only clear bits
FlashWrite(m, addr, data) ==
    [a \in 1..Len(m) |->
        IF a >= addr /\ a < addr + Len(data)
        THEN BitAnd(m[a], data[a - addr + 1])
        ELSE m[a]]

\* jsfNameFromVar: the first JSF_NAME_LEN characters, zero padded
jsfNameFromVar(s) ==
    [i \in 1..JSF_NAME_LEN |-> IF i <= Len(s) THEN s[i] ELSE 0]

\* Index in the journal of the live record called name (0 if none).
FindLive(jr, name) ==
    LET S == {i \in 1..Len(jr) : jr[i].live /\ jr[i].name = name}
    IN IF S = {} THEN 0 ELSE CHOOSE i \in S : \A j \in S : jr[j].addr <= jr[i].addr

\* The same, journal and name evaluated once
FindIdx(jr, name) == Bind(<<jr, name>>, LAMBDA a : FindLive(a[1], a[2]))

\* jsfFindFile(name, &header): address of the body of the live record, or 0
jsfFindFile(jr, name) ==
    LET i == FindIdx(jr, name) IN IF i = 0 THEN 0 ELSE jr[i].addr

\* jsfGetFileSize(&header) of the live record called name
jsfGetFileSize(jr, name) == jr[FindIdx(jr, name)].size

\* jsfEraseFile(name): mark the live record deleted
jsfEraseFile(jr, name) ==
    LET i == FindIdx(jr, name)
    IN IF i = 0 THEN [ok |-> FALSE, journal |-> jr]
       ELSE [ok |-> TRUE, journal |-> [jr EXCEPT ![i].live = FALSE]]

\* First address after the last record of the journal
JournalTail(jr) ==
    IF Len(jr) = 0 THEN 1 ELSE jr[Len(jr)].addr + jr[Len(jr)].size

\* Address in the free space after the journal of the header of a new record
\* of the given body size (0: the free space is too small). A record that does
\* not fit in what is left of the page starts at the next page if it has room
\* there.
TailAddr(jr, size) ==
    LET tail == JournalTail(jr)
        used == (tail - 1) % PageSize
        next == tail - used + PageSize
    IN IF tail + HeaderSize + size - 1 > FlashSize THEN 0
       ELSE IF used + HeaderSize + size <= PageSize THEN tail
       ELSE IF used > 0 /\ next + HeaderSize + size - 1 <= FlashSize THEN next
       ELSE tail

IsErased(m, addr, len) == \A i \in 0..(len - 1) : m[addr + i] = ERASED

\* Live records re-laid from the start of the region, in journal order
RECURSIVE Relay(_, _)
Relay(recs, acc) ==
    IF recs = <<>> THEN acc
    ELSE IF Len(recs) = 1
    THEN Append(acc, [recs[1] EXCEPT !.addr = TailAddr(acc, recs[1].size) + HeaderSize])
    ELSE LET half == Len(recs) \div 2
         IN Bind(Relay(SubSeq(recs, 1, half), acc),
                 LAMBDA mid : Relay(SubSeq(recs, half + 1, Len(recs)), mid))

LiveRecords(jr) == SelectSeq(jr, LAMBDA r : r.live)

\* jsfCompact(): stage the live bodies, erase every page, replay the records
jsfCompact(jr, m) ==
    LET old == LiveRecords(jr)
        new == Relay(old, <<>>)
        Src(a) == LET S == {i \in 1..Len(new) : a >= new[i].addr /\ a < new[i].addr + new[i].size}
                  IN IF S = {} THEN 0 ELSE CHOOSE i \in S : TRUE
        Hdr(a) == \E i \in 1..Len(new) : a >= new[i].addr - HeaderSize /\ a < new[i].addr
    IN [journal |-> new,
        mem |-> [a \in 1..Len(m) |->
                   IF Src(a) # 0 THEN m[old[Src(a)].addr + (a - new[Src(a)].addr)]
                   ELSE IF Hdr(a) THEN 0 ELSE ERASED]]

\* The header of a new record is committed at hdr (0: no room)
jsfCommitHeader(jr, m, name, size, hdr) ==
    IF hdr = 0 THEN [journal |-> jr, mem |-> m, addr |-> 0, size |-> size]
    ELSE [journal |-> Append(jr, [addr |-> hdr + HeaderSize, name |-> name,
                                   size |-> size, live |-> TRUE]),
          mem |-> [a \in 1..Len(m) |-> IF a >= hdr /\ a < hdr + HeaderSize THEN 0 ELSE m[a]],
          addr |-> hdr + HeaderSize, size |-> size]

\* Variant of jsfCreateFile: the records marked deleted are never erased
jsfCreateFile_NoReclaim(jr, m, name, size) ==
    jsfCommitHeader(jr, m, name, size, TailAddr(jr, size))

\* jsfWriteFile: a new record is reserved in the free space after the journal.
\* When that is too small (running low on flash) the records marked deleted
\* are erased, which is a compaction, and the record is reserved in the space
\* set free; there is no room when that is too small as well.
jsfCreateFile(jr, m, name, size) ==
    IF TailAddr(jr, size) # 0
    THEN jsfCommitHeader(jr, m, name, size, TailAddr(jr, size))
    ELSE Bind(jsfCompact(jr, m),
              LAMBDA c : jsfCommitHeader(c.journal, c.mem, name, size,
                                         TailAddr(c.journal, size)))

\* jsfWriteFile: the record the data goes to. A new record is reserved when
\* none is live, or when the live one cannot be filled (another size, or bytes
\* already programmed), which is then superseded.
jsfTarget(jr, m, name, size, offset, ex) ==
    IF ex = 0 /\ offset = 0
    THEN jsfCreateFile(jr, m, name, size)
    ELSE IF ex # 0 /\ offset = 0 /\ (size # jr[ex].size \/ ~IsErased(m, jr[ex].addr, size))
    THEN jsfCreateFile([jr EXCEPT ![ex].live = FALSE], m, name, size)
    ELSE [journal |-> jr, mem |-> m,
          addr |-> IF ex = 0 THEN 0 ELSE jr[ex].addr,
          size |-> IF ex = 0 THEN 0 ELSE jr[ex].size]

\* jsfWriteFile: the data is programmed into the record t if it fits
jsfFill(t, data, offset) ==
    IF t.addr = 0
    THEN [ok |-> FALSE, journal |-> t.journal, mem |-> t.mem, err |-> "no room"]
    ELSE IF offset + Len(data) > t.size
    THEN [ok |-> FALSE, journal |-> t.journal, mem |-> t.mem, err |-> "too much data"]
    ELSE [ok |-> TRUE, journal |-> t.journal,
          mem |-> FlashWrite(t.mem, t.addr + offset, data), err |-> ""]

\* jsfWriteFile(name, data, flags, offset, size)
jsfWriteFile(jr, m, name, data, offset, totalSize) ==
    jsfFill(jsfTarget(jr, m, name, IF totalSize = 0 THEN Len(data) ELSE totalSize,
                      offset, FindIdx(jr, name)),
            data, offset)

-----------------------------------------------------------------------------
(* StorageFile *)

\* fnamei: index of the first trailing zero among the first JSF_NAME_LEN-1 bytes
RECURSIVE FnameI(_, _)
FnameI(fname, i) == IF i > 0 /\ fname[i] = 0 THEN FnameI(fname, i - 1) ELSE i

\* fname = jsfNameFromVar(name); fname.c[fnamei] = chunk (stored in a char)
ChunkName(name, chunk) ==
    LET fname == jsfNameFromVar(name)
    IN [fname EXCEPT ![FnameI(fname, JSF_NAME_LEN - 1) + 1] = chunk % 256]

\* len<remaining with len a size_t: the int is converted to unsigned, so a
\* negative remaining compares above every length
LessUnsigned(len, remaining) == remaining < 0 \/ len < remaining

\* Variant of EraseStep: the chunk number is not advanced
EraseStep_SameChunk(st) ==
    LET e == jsfEraseFile(st.journal, ChunkName(st.name, st.chunk))
    IN [st EXCEPT !.journal = e.journal, !.ok = e.ok]

\* jswrap_storagefile_erase: one pass of while (ok)
EraseStep(st) ==
    LET e == jsfEraseFile(st.journal, ChunkName(st.name, st.chunk))
    IN [st EXCEPT !.journal = e.journal, !.ok = e.ok, !.chunk = st.chunk + 1]

\* at most n passes of the loop, stopping when ok is false
RECURSIVE EraseLoop(_, _)
EraseLoop(st, n) ==
    IF n = 0 \/ ~st.ok THEN st
    ELSE IF n = 1 THEN EraseStep(st)
    ELSE Bind(EraseLoop(st, n \div 2), LAMBDA mid : EraseLoop(mid, n - n \div 2))

\* jswrap_storagefile_erase(f); every pass but the last deletes a live record
jswrap_storagefile_erase(jr, h) ==
    [journal |-> EraseLoop([journal |-> jr, name |-> h.name, chunk |-> 1, ok |-> TRUE],
                           Len(jr) + 1).journal,
     f |-> [h EXCEPT !.chunk = 1, !.offset = 0, !.addr = 0, !.mode = 0]]

\* jswrap_storage_open, mode 'a': find the last free page
\* if (addr) read lastCh, the last byte of the body at addr
WalkRead(jr, m, fname, chunk, lastCh, addr) ==
    [chunk |-> chunk, addr |-> addr,
     lastCh |-> IF addr # 0 THEN m[addr + jsfGetFileSize(jr, fname) - 1] ELSE lastCh]

\* addr = jsfFindFile(fname, &header); if (addr) read lastCh
WalkLook(jr, m, name, chunk, lastCh) ==
    WalkRead(jr, m, ChunkName(name, chunk), chunk, lastCh,
             jsfFindFile(jr, ChunkName(name, chunk)))

\* at most n passes of while (addr && lastCh!=255 && chunk<255)
RECURSIVE OpenWalk(_, _, _, _, _)
OpenWalk(jr, m, name, st, n) ==
    IF n = 0 \/ ~(st.addr # 0 /\ st.lastCh # ERASED /\ st.chunk < MAX_CHUNK) THEN st
    ELSE IF n = 1 THEN WalkLook(jr, m, name, st.chunk + 1, st.lastCh)
    ELSE Bind(OpenWalk(jr, m, name, st, n \div 2),
              LAMBDA mid : OpenWalk(jr, m, name, mid, n - n \div 2))

\* jswrap_storage_open, mode 'a': find the end of the page
RECURSIVE OpenScan(_, _, _)
OpenScan(m, addr, offset) ==
    LET l0 == STORAGEFILE_CHUNKSIZE - offset
    IN IF l0 <= 0 THEN offset
       ELSE LET l   == Min(l0, OPEN_BUF)
                buf == FlashRead(m, addr + offset, l)
                S   == {i \in 1..l : buf[i] = ERASED}
            IN IF S # {} THEN offset + (CHOOSE i \in S : \A j \in S : i <= j) - 1
               ELSE OpenScan(m, addr, offset + l)

\* jswrap_storage_open, mode 'a': one pass of while (!foundEnd)
OpenScanPass(m, addr, offset) ==
    LET l   == Min(STORAGEFILE_CHUNKSIZE - offset, OPEN_BUF)
        buf == FlashRead(m, addr + offset, l)
        S   == {i \in 1..l : buf[i] = ERASED}
    IN IF STORAGEFILE_CHUNKSIZE - offset <= 0 THEN [offset |-> offset, foundEnd |-> TRUE]
       ELSE IF S # {}
       THEN [offset |-> offset + (CHOOSE i \in S : \A j \in S : i <= j) - 1, foundEnd |-> TRUE]
       ELSE [offset |-> offset + l, foundEnd |-> FALSE]

\* Variant of OpenModeW: the old chunks are kept
OpenModeW_Keep(jr, h0) == jr

\* jswrap_storage_open, mode 'w': if (addr) erase the file
OpenModeW(jr, h0) ==
    IF h0.addr # 0 THEN jswrap_storagefile_erase(jr, h0).journal ELSE jr

\* The StorageFile object: name, chunk, offset, addr, mode
NewFile(n, chunk, offset, addr, mode) ==
    [name |-> n, chunk |-> chunk, offset |-> offset, addr |-> addr, mode |-> mode]

\* jswrap_storage_open, mode 'a': the handle at the chunk w the walk stopped at
OpenAppend(m, n, w) ==
    NewFile(n, w.chunk, IF w.addr # 0 THEN OpenScan(m, w.addr, 0) ELSE 0, w.addr, MODE_A)

\* jswrap_storage_open with the name cut to 8 characters and addr the address
\* of chunk 1
OpenAt(jr, m, n, mode, addr) ==
    IF mode = MODE_W
    THEN [journal |-> OpenModeW(jr, NewFile(n, 1, 0, addr, mode)),
          f |-> NewFile(n, 1, 0, 0, mode)]
    ELSE IF mode = MODE_A
    THEN [journal |-> jr,
          f |-> OpenAppend(m, n, OpenWalk(jr, m, n, WalkLook(jr, m, n, 1, ERASED), MAX_CHUNK))]
    ELSE [journal |-> jr, f |-> NewFile(n, 1, 0, addr, mode)]

\* jswrap_storage_open(name, mode) for a valid mode
jswrap_storage_open(jr, m, name, mode) ==
    OpenAt(jr, m, Take(name, JSF_NAME_LEN), mode,
           jsfFindFile(jr, ChunkName(Take(name, JSF_NAME_LEN), 1)))

\* jswrap_storagefile_read_internal: mode check
ReadModeOk(mode) == mode = MODE_R

\* l = len, clipped to the buffer and to what remains of the chunk
ReadChunkLen(len, remaining) == Min(Min(len, READ_BUF), remaining)

\* Variant of ReadCut: the erased byte is kept
ReadCut_KeepErased(i, isNewline) == i

\* Variant of ReadCut: the newline is dropped
ReadCut_DropNewline(i, isNewline) == i - 1

\* the for loop over buf: the number of bytes kept when byte i (from 1) ends
\* the read, an erased byte being dropped and a newline kept
ReadCut(i, isNewline) == IF isNewline THEN i ELSE i - 1

\* if (remaining<=0): next page. The handle fields move to the next chunk, to
\* addr 0 after chunk 255.
ReadNextPage(jr, st) ==
    IF STORAGEFILE_CHUNKSIZE - st.offset > 0 THEN st
    ELSE IF st.chunk = MAX_CHUNK THEN [st EXCEPT !.offset = 0, !.addr = 0]
    ELSE [st EXCEPT !.offset = 0, !.chunk = st.chunk + 1,
                    !.addr = jsfFindFile(jr, ChunkName(st.name, st.chunk + 1))]

\* Index of the first byte of buf that ends the read (0 if none): an erased
\* byte, or a newline when reading a line
ReadStop(buf, isReadLine) ==
    LET S == {i \in 1..Len(buf) : buf[i] = ERASED \/ (isReadLine /\ buf[i] = NEWLINE)}
    IN IF S = {} THEN 0 ELSE CHOOSE x \in S : \A y \in S : x <= y

\* Variant of ReadAppend: without the break at l == 0
ReadAppend_NoBreak(st, buf, l, stopped, line) ==
    [st EXCEPT !.result = st.result \o SubSeq(buf, 1, l),
               !.len = IF line THEN READ_BUF ELSE IF stopped THEN 0 ELSE st.len - l,
               !.offset = st.offset + l,
               !.isReadLine = line]

\* l bytes of buf are appended; line tells that a line is still being read
ReadAppend(st, buf, l, stopped, line) ==
    IF l = 0 THEN [st EXCEPT !.done = TRUE]
    ELSE [st EXCEPT !.result = st.result \o SubSeq(buf, 1, l),
                    !.len = IF line THEN READ_BUF ELSE IF stopped THEN 0 ELSE st.len - l,
                    !.offset = st.offset + l,
                    !.isReadLine = line]

\* the for loop over buf, i the index of the byte that ends the read
ReadBuf(st, buf, i) ==
    IF i = 0 THEN ReadAppend(st, buf, Len(buf), FALSE, st.isReadLine)
    ELSE ReadAppend(st, buf, ReadCut(i, buf[i] # ERASED), TRUE,
                    st.isReadLine /\ buf[i] = ERASED)

\* the bytes read from the chunk the handle is in
ReadPage(m, st) ==
    IF st.addr = 0 THEN [st EXCEPT !.done = TRUE]
    ELSE Bind(FlashRead(m, st.addr + st.offset,
                        ReadChunkLen(st.len, STORAGEFILE_CHUNKSIZE - st.offset)),
              LAMBDA buf : Bind(ReadStop(buf, st.isReadLine),
                                LAMBDA i : ReadBuf(st, buf, i)))

\* jswrap_storagefile_read_internal: one pass of while (len)
ReadStep(jr, m, st) == Bind(ReadNextPage(jr, st), LAMBDA page : ReadPage(m, page))

\* at most n passes of while (len), stopping at len == 0, a return or a break
RECURSIVE ReadLoop(_, _, _, _)
ReadLoop(jr, m, st, n) ==
    IF n = 0 \/ st.done \/ st.len = 0 THEN st
    ELSE IF n = 1 THEN ReadStep(jr, m, st)
    ELSE Bind(ReadLoop(jr, m, st, n \div 2),
              LAMBDA mid : ReadLoop(jr, m, mid, n - n \div 2))

\* jswrap_storagefile_read_internal(f, len); len < 0 reads a line
jswrap_storagefile_read_internal(jr, m, h, len) ==
    IF ~ReadModeOk(h.mode)
    THEN [f |-> h, result |-> <<>>, err |-> "Can't read in this mode"]
    ELSE IF h.addr = 0
    THEN [f |-> h, result |-> <<>>, err |-> ""]
    ELSE LET st == ReadLoop(jr, m,
                     [name |-> h.name, chunk |-> h.chunk, offset |-> h.offset,
                      addr |-> h.addr, result |-> <<>>, isReadLine |-> len < 0,
                      len |-> IF len < 0 THEN READ_BUF ELSE len, done |-> FALSE],
                     MAX_CHUNK * (STORAGEFILE_CHUNKSIZE + 1) + 1)
         IN [f |-> [h EXCEPT !.chunk = st.chunk, !.offset = st.offset, !.addr = st.addr],
             result |-> st.result, err |-> ""]

\* jswrap_storagefile_read(f, len)
jswrap_storagefile_read(jr, m, h, len) ==
    jswrap_storagefile_read_internal(jr, m, h, IF len < 0 THEN 0 ELSE len)

\* jswrap_storagefile_readLine(f)
jswrap_storagefile_readLine(jr, m, h) ==
    jswrap_storagefile_read_internal(jr, m, h, -1)

\* Variant of WriteModeOk: only mode 'r' is refused
WriteModeOk_NotR(mode) == mode # MODE_R

\* jswrap_storagefile_write: mode check
WriteModeOk(mode) == mode = MODE_W \/ mode = MODE_A

\* Variant of FileTooBig: chunk 255 is not the last one
FileTooBig_Never(chunk) == FALSE

\* jswrap_storagefile_write: if (chunk==255) "File too big!"
FileTooBig(chunk) == chunk = MAX_CHUNK

\* if (jsfWriteFile(...)) { addr = jsfFindFile(fname); offset = len; } with w
\* what jsfWriteFile did and len the length of the data given to it
WriteCreated(h, fname, len, w) ==
    [f |-> IF w.ok
           THEN [h EXCEPT !.offset = len, !.addr = jsfFindFile(w.journal, fname)]
           ELSE h,
     journal |-> w.journal, mem |-> w.mem, err |-> w.err]

\* Next page, m1 the flash after the current page was filled: chunk++ is
\* stored in the handle before the rest is written
WriteNextPage(jr, m1, h, part) ==
    IF FileTooBig(h.chunk)
    THEN [f |-> h, journal |-> jr, mem |-> m1, err |-> "File too big!"]
    ELSE WriteCreated([h EXCEPT !.chunk = h.chunk + 1],
                      ChunkName(h.name, h.chunk + 1), Len(part),
                      jsfWriteFile(jr, m1, ChunkName(h.name, h.chunk + 1), part, 0,
                                   STORAGEFILE_CHUNKSIZE))

\* jswrap_storagefile_write(f, data)
jswrap_storagefile_write(jr, m, h, data) ==
    IF ~WriteModeOk(h.mode)
    THEN [f |-> h, journal |-> jr, mem |-> m, err |-> "Can't write in this mode"]
    ELSE IF Len(data) = 0
    THEN [f |-> h, journal |-> jr, mem |-> m, err |-> ""]
    ELSE IF h.addr = 0
    THEN WriteCreated(h, ChunkName(h.name, h.chunk), Len(data),
                      jsfWriteFile(jr, m, ChunkName(h.name, h.chunk), data, 0,
                                   STORAGEFILE_CHUNKSIZE))
    ELSE IF LessUnsigned(Len(data), STORAGEFILE_CHUNKSIZE - h.offset)
    THEN [f |-> [h EXCEPT !.offset = h.offset + Len(data)],
          journal |-> jr, mem |-> FlashWrite(m, h.addr + h.offset, data), err |-> ""]
    ELSE WriteNextPage(jr,
                       FlashWrite(m, h.addr + h.offset,
                                  Take(data, STORAGEFILE_CHUNKSIZE - h.offset)),
                       h, SubSeqFrom(data, STORAGEFILE_CHUNKSIZE - h.offset))

-----------------------------------------------------------------------------
(* Inputs *)

StreamName == <<108, 111, 103>>

StreamByte(p) == IF p % 2 = 1 THEN 120 ELSE 121

\* len bytes without 0xFF, with a newline at position nl (none if nl = 0)
MkData(len, nl) == [i \in 1..len |-> IF i = nl THEN NEWLINE ELSE StreamByte(i)]

\* The flash was filled with a long stream before the program started
Prefilled == flashPages > FlashPages

WriteLens ==
    IF Prefilled THEN {1, STORAGEFILE_CHUNKSIZE}
    ELSE {STORAGEFILE_CHUNKSIZE - 1, STORAGEFILE_CHUNKSIZE, STORAGEFILE_CHUNKSIZE + 1}

WriteData ==
    {MkData(len, 0) : len \in WriteLens}
    \cup (IF Prefilled THEN {}
          ELSE {MkData(STORAGEFILE_CHUNKSIZE - 1, STORAGEFILE_CHUNKSIZE - 1),
                MkData(STORAGEFILE_CHUNKSIZE + 1, 1)})

ReadLens ==
    IF Prefilled
    THEN {PrefillChunks * STORAGEFILE_CHUNKSIZE, MAX_CHUNK * STORAGEFILE_CHUNKSIZE + 1}
    ELSE {0, STORAGEFILE_CHUNKSIZE - 1, READ_BUF + 1, MAX_CHUNK * STORAGEFILE_CHUNKSIZE + 1}

Modes == {MODE_R, MODE_W, MODE_A}

-----------------------------------------------------------------------------
(* State machine *)

NoFile == [name |-> <<>>, chunk |-> 0, offset |-> 0, addr |-> 0, mode |-> 0]

\* No call is in progress
NoRun == [pc |-> "idle"]

\* The flash after k writes of STORAGEFILE_CHUNKSIZE bytes to a new stream
PrefillJournal(cs, k) ==
    [i \in 1..k |-> [addr |-> (i - 1) * (cs + HeaderSize) + HeaderSize + 1,
                     name |-> ChunkName(StreamName, i), size |-> cs, live |-> TRUE]]

PrefillMem(cs, pages, k) ==
    [a \in 1..(pages * (cs + HeaderSize)) |->
        LET page == (a - 1) \div (cs + HeaderSize)
            off  == (a - 1) % (cs + HeaderSize)
        IN IF page >= k THEN ERASED
           ELSE IF off < HeaderSize THEN 0
           ELSE StreamByte(off - HeaderSize + 1)]

PrefillContent(cs, k) == [p \in 1..(cs * k) |-> StreamByte(((p - 1) % cs) + 1)]

Geometries ==
    {[cs |-> BigChunk, pages |-> FlashPages, pre |-> 0],
     [cs |-> SmallChunk, pages |-> FlashPages, pre |-> 0],
     [cs |-> SmallChunk, pages |-> PrefillChunks + 2, pre |-> PrefillChunks]}

InitFrom(G) ==
    \E g \in G :
        /\ STORAGEFILE_CHUNKSIZE = g.cs
        /\ flashPages = g.pages
        /\ journal = PrefillJournal(g.cs, g.pre)
        /\ mem = PrefillMem(g.cs, g.pages, g.pre)
        /\ f = NoFile
        /\ exception = ""
        /\ expect = PrefillContent(g.cs, g.pre)
        /\ rlog = <<>>
        /\ wonly = FALSE
        /\ nwrites = 0
        /\ op = ""
        /\ run = NoRun

Init == InitFrom(Geometries)

\* The flash starts erased
InitFresh == InitFrom({g \in Geometries : g.pre = 0})

Open(name, mode) ==
    \E o \in {jswrap_storage_open(journal, mem, name, mode)} :
       /\ f' = o.f
       /\ journal' = o.journal
       /\ exception' = ""
       /\ expect' = IF mode = MODE_W THEN <<>> ELSE expect
       /\ rlog' = <<>>
       /\ wonly' = IF mode = MODE_W THEN TRUE ELSE IF mode = MODE_A THEN FALSE ELSE wonly
       /\ op' = "open"
       /\ UNCHANGED <<run, STORAGEFILE_CHUNKSIZE, flashPages, mem, nwrites>>

Read(len) ==
    /\ f # NoFile
    /\ \E r \in {jswrap_storagefile_read(journal, mem, f, len)} :
          /\ f' = r.f
          /\ exception' = r.err
          /\ rlog' = rlog \o r.result
          /\ op' = "read"
          /\ UNCHANGED <<run, STORAGEFILE_CHUNKSIZE, flashPages, journal, mem, expect, wonly, nwrites>>

ReadLine ==
    /\ f # NoFile
    /\ \E r \in {jswrap_storagefile_readLine(journal, mem, f)} :
          /\ f' = r.f
          /\ exception' = r.err
          /\ rlog' = rlog \o r.result
          /\ op' = "readLine"
          /\ UNCHANGED <<run, STORAGEFILE_CHUNKSIZE, flashPages, journal, mem, expect, wonly, nwrites>>

Write(data) ==
    /\ f # NoFile
    /\ \E w \in {jswrap_storagefile_write(journal, mem, f, data)} :
          /\ nwrites < MaxWrites
          /\ f' = w.f
          /\ journal' = w.journal
          /\ mem' = w.mem
          /\ exception' = w.err
          /\ expect' = IF f.mode \in {MODE_W, MODE_A} THEN expect \o data ELSE expect
          /\ nwrites' = IF f.mode \in {MODE_W, MODE_A} THEN nwrites + 1 ELSE nwrites
          /\ wonly' = (wonly /\ w.err \notin {"no room", "File too big!"})
          /\ op' = "write"
          /\ UNCHANGED <<run, STORAGEFILE_CHUNKSIZE, flashPages, rlog>>

Erase ==
    /\ f # NoFile
    /\ \E e \in {jswrap_storagefile_erase(journal, f)} :
          /\ f' = e.f
          /\ journal' = e.journal
          /\ exception' = ""
          /\ expect' = <<>>
          /\ wonly' = FALSE
          /\ op' = "erase"
          /\ UNCHANGED <<run, STORAGEFILE_CHUNKSIZE, flashPages, mem, rlog, nwrites>>

Compact ==
    \E c \in {jsfCompact(journal, mem)} :
       /\ journal' = c.journal
       /\ mem' = c.mem
       /\ exception' = ""
       /\ op' = "compact"
       /\ UNCHANGED <<run, STORAGEFILE_CHUNKSIZE, flashPages, f, expect, rlog, wonly, nwrites>>

Next ==
    \/ \E mode \in Modes : Open(StreamName, mode)
    \/ \E len \in ReadLens : Read(len)
    \/ ReadLine
    \/ \E data \in WriteData : Write(data)
    \/ Erase

Spec == Init /\ [][Next]_vars

SpecFresh == InitFresh /\ [][Next]_vars

NextCompact == Next \/ Compact

SpecCompact == InitFresh /\ [][NextCompact]_vars

-----------------------------------------------------------------------------
(* open with any name and any mode string *)

\* Variant of OpenMode: a mode string that is not "r" or "a" opens for writing
OpenMode_DefaultW(modeVar) ==
    IF modeVar = <<MODE_R>> THEN MODE_R
    ELSE IF modeVar = <<MODE_A>> THEN MODE_A
    ELSE MODE_W

\* jswrap_storage_open: the mode character of the mode string, 0 if it is
\* none of "r", "w", "a"
OpenMode(modeVar) ==
    IF modeVar = <<MODE_R>> THEN MODE_R
    ELSE IF modeVar = <<MODE_W>> THEN MODE_W
    ELSE IF modeVar = <<MODE_A>> THEN MODE_A
    ELSE 0

\* jswrap_storage_open after the mode string is parsed: mode 0 raises
\* "Invalid mode" and returns no handle
OpenParsed(jr, m, name, mode) ==
    IF mode = 0 THEN [journal |-> jr, f |-> NoFile, err |-> "Invalid mode"]
    ELSE Bind(jswrap_storage_open(jr, m, name, mode),
              LAMBDA o : [journal |-> o.journal, f |-> o.f, err |-> ""])

\* jswrap_storage_open(name, modeVar), the mode given as a string
jswrap_storage_open_modeVar(jr, m, name, modeVar) ==
    OpenParsed(jr, m, name, OpenMode(modeVar))

\* "logfile1" and "logfile2": 8 bytes, different in the 8th byte only
LongNameA == <<108, 111, 103, 102, 105, 108, 101, 49>>

LongNameB == <<108, 111, 103, 102, 105, 108, 101, 50>>

LongNames == {LongNameA, LongNameB}

OpenNames == {StreamName} \cup LongNames

\* "x", "rw" and the empty string
BadModeVars == {<<120>>, <<MODE_R, MODE_W>>, <<>>}

ModeVars == {<<mode>> : mode \in Modes} \cup BadModeVars

\* One byte, and one byte more than a chunk holds
NamesData == {MkData(1, 0), MkData(STORAGEFILE_CHUNKSIZE + 1, 0)}

\* The flash starts erased, with the small chunk size
InitSmall == InitFrom({g \in Geometries : g.pre = 0 /\ g.cs = SmallChunk})

OpenVar(name, modeVar) ==
    \E o \in {jswrap_storage_open_modeVar(journal, mem, name, modeVar)} :
       /\ f' = o.f
       /\ journal' = o.journal
       /\ exception' = o.err
       /\ expect' = <<>>
       /\ rlog' = <<>>
       /\ wonly' = FALSE
       /\ op' = "open"
       /\ UNCHANGED <<run, STORAGEFILE_CHUNKSIZE, flashPages, mem, nwrites>>

NextNames ==
    \/ \E name \in OpenNames : \E modeVar \in ModeVars : OpenVar(name, modeVar)
    \/ Read(STORAGEFILE_CHUNKSIZE)
    \/ \E data \in NamesData : Write(data)
    \/ Erase

SpecNames == InitSmall /\ [][NextNames]_vars

-----------------------------------------------------------------------------
(* The Storage library: journal files *)

\* jsfReadFile(name): the body of the live record, or nothing
jsfReadFile(jr, m, name) ==
    IF FindIdx(jr, name) = 0 THEN [found |-> FALSE, data |-> <<>>]
    ELSE [found |-> TRUE,
          data |-> FlashRead(m, jsfFindFile(jr, name), jsfGetFileSize(jr, name))]

\* jsfListFiles(): the names of the live records, in journal order
jsfListFiles(jr) == [i \in 1..Len(LiveRecords(jr)) |-> LiveRecords(jr)[i].name]

\* jsfEraseAll(): every page of the region is erased
jsfEraseAll(m) == [journal |-> <<>>, mem |-> [a \in 1..Len(m) |-> ERASED]]

\* Variant of jsfCompactStaged: the pages are erased before the staging is
\* known to fit
jsfCompactStaged_EraseFirst(jr, m, enoughRam) ==
    IF enoughRam THEN jsfCompact(jr, m)
    ELSE [journal |-> <<>>, mem |-> [a \in 1..Len(m) |-> ERASED]]

\* jsfCompact() with its staging buffer: without enough RAM it gives up before
\* it touches the flash
jsfCompactStaged(jr, m, enoughRam) ==
    IF enoughRam THEN jsfCompact(jr, m) ELSE [journal |-> jr, mem |-> m]

\* require("Storage").read(name)
jswrap_storage_read(jr, m, name) == jsfReadFile(jr, m, jsfNameFromVar(name))

\* require("Storage").eraseAll()
jswrap_storage_eraseAll(m) == jsfEraseAll(m)

\* A JsVar given to write: a string of bytes, or an object whose fields are a
\* one-character key and a one-digit value each (v holds key, value, key,
\* value, ...)
jsvNewFromString(s) == [type |-> "string", v |-> s]

jsvNewObject(fields) == [type |-> "object", v |-> fields]

jsvIsObject(data) == data.type = "object"

\* "k":d of the field that starts at index i of v
JsonField(v, i) == <<34, v[i], 34, 58, 48 + v[i + 1]>>

\* the fields from index i on, separated by commas
RECURSIVE JsonFields(_, _)
JsonFields(v, i) ==
    IF i > Len(v) THEN <<>>
    ELSE IF i + 2 > Len(v) THEN JsonField(v, i)
    ELSE JsonField(v, i) \o <<44>> \o JsonFields(v, i + 2)

\* jswrap_json_stringify(data, 0, 0) of an object: {"k":d,...}
jswrap_json_stringify(data) == <<123>> \o JsonFields(data.v, 1) \o <<125>>

\* Variant of jswrap_storage_write: the offset of a string is not passed on
jswrap_storage_write_AtStart(jr, m, name, data, offset, size) ==
    IF jsvIsObject(data)
    THEN jsfWriteFile(jr, m, jsfNameFromVar(name), jswrap_json_stringify(data), 0, 0)
    ELSE jsfWriteFile(jr, m, jsfNameFromVar(name), data.v, 0, size)

\* require("Storage").write(name, data, offset, size): an object is written as
\* its JSON text with offset = 0 and _size = 0
jswrap_storage_write(jr, m, name, data, offset, size) ==
    IF jsvIsObject(data)
    THEN jsfWriteFile(jr, m, jsfNameFromVar(name), jswrap_json_stringify(data), 0, 0)
    ELSE jsfWriteFile(jr, m, jsfNameFromVar(name), data.v, offset, size)

\* require("Storage").erase(name)
jswrap_storage_erase(jr, name) == jsfEraseFile(jr, jsfNameFromVar(name))

\* require("Storage").list()
jswrap_storage_list(jr) == jsfListFiles(jr)

\* require("Storage").compact()
jswrap_storage_compact(jr, m, enoughRam) == jsfCompactStaged(jr, m, enoughRam)

\* "a" and "b"
FileA == <<97>>

FileB == <<98>>

StoreNames == {FileA, FileB}

\* "Hello", " ", "World!!!", "one", "two"
Hello == <<72, 101, 108, 108, 111>>

Space == <<32>>

World == <<87, 111, 114, 108, 100, 33, 33, 33>>

One == <<111, 110, 101>>

Two == <<116, 119, 111>>

HelloSize == 14

\* The object {a:1}
ObjA1 == jsvNewObject(<<97, 1>>)

\* The arguments of write: with the big chunk size the calls of the
\* documentation, with the small one single bytes; and an object given with an
\* offset and a size
StoreWrites ==
    IF STORAGEFILE_CHUNKSIZE = BigChunk
    THEN {[name |-> FileA, data |-> jsvNewFromString(Hello), offset |-> 0,
           size |-> HelloSize],
          [name |-> FileA, data |-> jsvNewFromString(Space), offset |-> Len(Hello),
           size |-> 0],
          [name |-> FileA, data |-> jsvNewFromString(World), offset |-> Len(Hello) + 1,
           size |-> 0],
          [name |-> FileA, data |-> jsvNewFromString(One), offset |-> 0, size |-> 0],
          [name |-> FileA, data |-> jsvNewFromString(Two), offset |-> 0, size |-> 0],
          [name |-> FileB, data |-> jsvNewFromString(One), offset |-> 0, size |-> 0],
          [name |-> FileA, data |-> ObjA1, offset |-> Len(Hello), size |-> HelloSize]}
    ELSE {[name |-> FileA, data |-> jsvNewFromString(<<StreamByte(1)>>), offset |-> 0,
           size |-> 0],
          [name |-> FileA, data |-> jsvNewFromString(<<StreamByte(2)>>), offset |-> 0,
           size |-> 0],
          [name |-> FileA, data |-> jsvNewFromString(<<StreamByte(1)>>), offset |-> 0,
           size |-> SmallChunk],
          [name |-> FileA, data |-> jsvNewFromString(<<StreamByte(2)>>), offset |-> 1,
           size |-> 0],
          [name |-> FileB, data |-> jsvNewFromString(<<StreamByte(1)>>), offset |-> 0,
           size |-> 0],
          [name |-> FileB, data |-> ObjA1, offset |-> 1, size |-> SmallChunk]}

StorageWrite(name, data, offset, size) ==
    /\ nwrites < MaxStoreWrites
    /\ \E w \in {jswrap_storage_write(journal, mem, name, data, offset, size)} :
          /\ journal' = w.journal
          /\ mem' = w.mem
          /\ exception' = w.err
          /\ nwrites' = nwrites + 1
          /\ op' = "Storage.write"
          /\ UNCHANGED <<run, STORAGEFILE_CHUNKSIZE, flashPages, f, expect, rlog, wonly>>

StorageRead(name) ==
    \E r \in {jswrap_storage_read(journal, mem, name)} :
       /\ rlog' = r.data
       /\ exception' = ""
       /\ op' = "Storage.read"
       /\ UNCHANGED <<run, STORAGEFILE_CHUNKSIZE, flashPages, journal, mem, f, expect, wonly, nwrites>>

StorageErase(name) ==
    \E e \in {jswrap_storage_erase(journal, name)} :
       /\ journal' = e.journal
       /\ exception' = ""
       /\ op' = "Storage.erase"
       /\ UNCHANGED <<run, STORAGEFILE_CHUNKSIZE, flashPages, mem, f, expect, rlog, wonly, nwrites>>

StorageEraseAll ==
    \E e \in {jswrap_storage_eraseAll(mem)} :
       /\ journal' = e.journal
       /\ mem' = e.mem
       /\ exception' = ""
       /\ op' = "Storage.eraseAll"
       /\ UNCHANGED <<run, STORAGEFILE_CHUNKSIZE, flashPages, f, expect, rlog, wonly, nwrites>>

StorageCompact(enoughRam) ==
    \E c \in {jswrap_storage_compact(journal, mem, enoughRam)} :
       /\ journal' = c.journal
       /\ mem' = c.mem
       /\ exception' = ""
       /\ op' = IF enoughRam THEN "Storage.compact" ELSE "Storage.compact gave up"
       /\ UNCHANGED <<run, STORAGEFILE_CHUNKSIZE, flashPages, f, expect, rlog, wonly, nwrites>>

NextStore ==
    \/ \E w \in StoreWrites : StorageWrite(w.name, w.data, w.offset, w.size)
    \/ \E name \in StoreNames : StorageRead(name)
    \/ \E name \in StoreNames : StorageErase(name)
    \/ StorageEraseAll
    \/ \E enoughRam \in BOOLEAN : StorageCompact(enoughRam)

SpecStore == InitFresh /\ [][NextStore]_vars

-----------------------------------------------------------------------------
(* Streams and journal files in one flash *)

\* Journal files: one named as the stream is, and "a"
PlainNames == {StreamName, FileA}

\* The small chunk size, the flash erased or holding the long stream
InitShared == InitFrom({g \in Geometries : g.cs = SmallChunk})

NextShared ==
    \/ \E mode \in Modes : Open(StreamName, mode)
    \/ Write(MkData(STORAGEFILE_CHUNKSIZE, 0))
    \/ Erase
    \/ \E name \in PlainNames : StorageWrite(name, jsvNewFromString(<<StreamByte(1)>>), 0, 0)
    \/ StorageEraseAll

SpecShared == InitShared /\ [][NextShared]_vars

-----------------------------------------------------------------------------
(* The stream operations pass by pass: every pass of a loop is a step *)

\* The small chunk size with the flash erased or holding the long stream, and
\* a chunk wider than the buffer of the end-of-chunk scan
StepGeometries ==
    {g \in Geometries : g.cs = SmallChunk}
    \cup {[cs |-> WideChunk, pages |-> FlashPages, pre |-> 0]}

InitSteps == InitFrom(StepGeometries)

\* A full chunk; and in a fresh flash a chunk short of one byte, and two bytes
\* that end a line
StepData ==
    {MkData(STORAGEFILE_CHUNKSIZE, 0)}
    \cup (IF Prefilled THEN {}
          ELSE {MkData(STORAGEFILE_CHUNKSIZE - 1, 0), MkData(2, 2)})

\* The whole stream; and in a fresh flash one byte
StepReadLens ==
    {MAX_CHUNK * STORAGEFILE_CHUNKSIZE + 1} \cup (IF Prefilled THEN {} ELSE {1})

Idle == run.pc = "idle"

\* A call that has no loop is one step
StepOpen(mode) ==
    /\ Idle
    /\ mode = MODE_R \/ (mode = MODE_W /\ ChunkName(StreamName, 1) \notin
                            {journal[i].name : i \in {j \in 1..Len(journal) : journal[j].live}})
    /\ Open(StreamName, mode)

StepWrite(data) ==
    /\ Idle
    /\ nwrites < MaxStepWrites
    /\ Write(data)

StepStorageWrite ==
    /\ Idle
    /\ jsfFindFile(journal, jsfNameFromVar(StreamName)) = 0
    /\ StorageWrite(StreamName, jsvNewFromString(<<StreamByte(1)>>), 0, 0)

\* jswrap_storagefile_erase, and the erase of open(name, "w") when chunk 1 is
\* live: chunk = 1; ok = true
EraseBegin(mode) ==
    /\ Idle
    /\ IF mode = 0 THEN f # NoFile
       ELSE jsfFindFile(journal, ChunkName(StreamName, 1)) # 0
    /\ run' = [pc |-> "erase", mode |-> mode, chunk |-> 1, ok |-> TRUE,
               name |-> IF mode = 0 THEN f.name ELSE StreamName]
    /\ op' = IF mode = 0 THEN "erase" ELSE "open"
    /\ exception' = ""
    /\ UNCHANGED <<STORAGEFILE_CHUNKSIZE, flashPages, journal, mem, f, expect, rlog, wonly,
                   nwrites>>

\* one pass of while (ok)
ErasePass ==
    /\ run.pc = "erase" /\ run.ok
    /\ \E e \in {EraseStep([journal |-> journal, name |-> run.name,
                            chunk |-> run.chunk, ok |-> run.ok])} :
          /\ journal' = e.journal
          /\ run' = [run EXCEPT !.chunk = e.chunk, !.ok = e.ok]
    /\ UNCHANGED <<STORAGEFILE_CHUNKSIZE, flashPages, mem, f, exception, expect, rlog, wonly,
                   nwrites, op>>

\* the loop is left: reset everything, or return the new 'w' handle
EraseEnd ==
    /\ run.pc = "erase" /\ ~run.ok
    /\ f' = IF run.mode = 0
            THEN [f EXCEPT !.chunk = 1, !.offset = 0, !.addr = 0, !.mode = 0]
            ELSE NewFile(run.name, 1, 0, 0, MODE_W)
    /\ run' = NoRun
    /\ expect' = <<>>
    /\ rlog' = IF run.mode = 0 THEN rlog ELSE <<>>
    /\ wonly' = (run.mode # 0)
    /\ UNCHANGED <<STORAGEFILE_CHUNKSIZE, flashPages, journal, mem, exception, nwrites, op>>

\* open(name, "a"): addr of chunk 1 and its last byte
WalkBegin ==
    /\ Idle
    /\ \E w \in {WalkLook(journal, mem, StreamName, 1, ERASED)} :
          run' = [pc |-> "walk", chunk |-> w.chunk, addr |-> w.addr, lastCh |-> w.lastCh]
    /\ op' = "open"
    /\ exception' = ""
    /\ UNCHANGED <<STORAGEFILE_CHUNKSIZE, flashPages, journal, mem, f, expect, rlog, wonly,
                   nwrites>>

\* one pass of while (addr && lastCh!=255 && chunk<255)
WalkPass ==
    /\ run.pc = "walk"
    /\ run.addr # 0 /\ run.lastCh # ERASED /\ run.chunk < MAX_CHUNK
    /\ \E w \in {WalkLook(journal, mem, StreamName, run.chunk + 1, run.lastCh)} :
          run' = [run EXCEPT !.chunk = w.chunk, !.addr = w.addr, !.lastCh = w.lastCh]
    /\ UNCHANGED <<STORAGEFILE_CHUNKSIZE, flashPages, journal, mem, f, exception, expect,
                   rlog, wonly, nwrites, op>>

\* the walk is left: if (addr) find the end of the page
WalkEnd ==
    /\ run.pc = "walk"
    /\ ~(run.addr # 0 /\ run.lastCh # ERASED /\ run.chunk < MAX_CHUNK)
    /\ run' = [pc |-> "scan", chunk |-> run.chunk, addr |-> run.addr, offset |-> 0,
               foundEnd |-> run.addr = 0]
    /\ UNCHANGED <<STORAGEFILE_CHUNKSIZE, flashPages, journal, mem, f, exception, expect,
                   rlog, wonly, nwrites, op>>

\* one pass of while (!foundEnd)
ScanPass ==
    /\ run.pc = "scan" /\ ~run.foundEnd
    /\ \E p \in {OpenScanPass(mem, run.addr, run.offset)} :
          run' = [run EXCEPT !.offset = p.offset, !.foundEnd = p.foundEnd]
    /\ UNCHANGED <<STORAGEFILE_CHUNKSIZE, flashPages, journal, mem, f, exception, expect,
                   rlog, wonly, nwrites, op>>

\* the 'a' handle is returned
ScanEnd ==
    /\ run.pc = "scan" /\ run.foundEnd
    /\ f' = NewFile(StreamName, run.chunk, run.offset, run.addr, MODE_A)
    /\ run' = NoRun
    /\ rlog' = <<>>
    /\ wonly' = FALSE
    /\ UNCHANGED <<STORAGEFILE_CHUNKSIZE, flashPages, journal, mem, exception, expect,
                   nwrites, op>>

\* jswrap_storagefile_read_internal up to the loop; len < 0 reads a line
ReadBegin(len) ==
    /\ Idle
    /\ f # NoFile
    /\ IF ~ReadModeOk(f.mode)
       THEN /\ exception' = "Can't read in this mode"
            /\ run' = NoRun
       ELSE /\ exception' = ""
            /\ run' = IF f.addr = 0 THEN NoRun
                      ELSE [pc |-> "read",
                            st |-> [name |-> f.name, chunk |-> f.chunk,
                                    offset |-> f.offset, addr |-> f.addr,
                                    result |-> <<>>, isReadLine |-> len < 0,
                                    len |-> IF len < 0 THEN READ_BUF ELSE len,
                                    done |-> FALSE]]
    /\ op' = IF len < 0 THEN "readLine" ELSE "read"
    /\ UNCHANGED <<STORAGEFILE_CHUNKSIZE, flashPages, journal, mem, f, expect, rlog, wonly,
                   nwrites>>

\* one pass of while (len); a pass that turns the page stores addr, offset and
\* chunk in the handle
ReadPass ==
    /\ run.pc = "read"
    /\ ~(run.st.done \/ run.st.len = 0)
    /\ \E st \in {ReadStep(journal, mem, run.st)} : run' = [run EXCEPT !.st = st]
    /\ \E page \in {ReadNextPage(journal, run.st)} :
          f' = IF STORAGEFILE_CHUNKSIZE - run.st.offset <= 0
               THEN [f EXCEPT !.addr = page.addr, !.offset = page.offset,
                              !.chunk = page.chunk]
               ELSE f
    /\ UNCHANGED <<STORAGEFILE_CHUNKSIZE, flashPages, journal, mem, exception, expect,
                   rlog, wonly, nwrites, op>>

\* the loop is left: the offset is stored (after the return at a missing
\* chunk it is the offset 0 already stored), the result is returned
ReadEnd ==
    /\ run.pc = "read"
    /\ run.st.done \/ run.st.len = 0
    /\ f' = [f EXCEPT !.offset = run.st.offset]
    /\ rlog' = rlog \o run.st.result
    /\ run' = NoRun
    /\ UNCHANGED <<STORAGEFILE_CHUNKSIZE, flashPages, journal, mem, exception, expect,
                   wonly, nwrites, op>>

\* The steps of a call in progress
StepsRun ==
    \/ ErasePass
    \/ EraseEnd
    \/ WalkPass
    \/ WalkEnd
    \/ ScanPass
    \/ ScanEnd
    \/ ReadPass
    \/ ReadEnd

NextSteps ==
    \/ \E mode \in {MODE_R, MODE_W} : StepOpen(mode)
    \/ \E data \in StepData : StepWrite(data)
    \/ StepStorageWrite
    \/ \E mode \in {0, MODE_W} : EraseBegin(mode)
    \/ WalkBegin
    \/ \E len \in StepReadLens \cup {-1} : ReadBegin(len)
    \/ StepsRun

\* A call in progress goes on: there is no suspension point inside a call
SpecSteps == InitSteps /\ [][NextSteps]_vars /\ WF_vars(StepsRun)

-----------------------------------------------------------------------------
(* The stream as the journal holds it, looked up by name *)

\* Body address of chunk c of the stream (0 if no live record)
ChunkAddr(c) == jsfFindFile(journal, ChunkName(StreamName, c))

\* Byte k (from 0) of the body of chunk c
ChunkByte(c, k) == mem[ChunkAddr(c) + k]

\* The journal record r is a chunk record of the stream
IsChunkRecord(r) ==
    LET c == r.name[Len(StreamName) + 1]
    IN c \in 1..MAX_CHUNK /\ r.name = ChunkName(StreamName, c)

\* T: the number of data (non-0xFF) bytes in the live chunk records of the stream
StoredBytes ==
    Cardinality({p \in (1..Len(journal)) \X (0..(STORAGEFILE_CHUNKSIZE - 1)) :
                   /\ journal[p[1]].live
                   /\ IsChunkRecord(journal[p[1]])
                   /\ mem[journal[p[1]].addr + p[2]] # ERASED})

\* What a new 'r' handle reads until read returns nothing
ReadAll ==
    jswrap_storagefile_read(journal, mem,
        jswrap_storage_open(journal, mem, StreamName, MODE_R).f,
        MAX_CHUNK * STORAGEFILE_CHUNKSIZE + 1).result

\* The handle is a 'r' handle on which read(1) returns nothing
ReadExhausted ==
    /\ f.mode = MODE_R
    /\ jswrap_storagefile_read(journal, mem, f, 1).result = <<>>

\* First offset k >= from of the body at addr holding an erased byte
\* (CHUNK_SIZE if none)
DataEnd(addr, from) ==
    LET S == {k \in from..(STORAGEFILE_CHUNKSIZE - 1) : mem[addr + k] = ERASED}
    IN IF S = {} THEN STORAGEFILE_CHUNKSIZE ELSE CHOOSE k \in S : \A j \in S : k <= j

\* The data bytes of chunk st.chunk from offset st.from, then on to the next chunk
StreamStep(st) ==
    LET a == ChunkAddr(st.chunk)
        e == DataEnd(a, st.from)
    IN IF a = 0 THEN [st EXCEPT !.stop = TRUE]
       ELSE [chunk |-> st.chunk + 1, from |-> 0,
             bytes |-> st.bytes \o FlashRead(mem, a + st.from, e - st.from),
             stop |-> e < STORAGEFILE_CHUNKSIZE \/ st.chunk = MAX_CHUNK]

RECURSIVE StreamLoop(_, _)
StreamLoop(st, n) ==
    IF n = 0 \/ st.stop THEN st
    ELSE IF n = 1 THEN StreamStep(st)
    ELSE Bind(StreamLoop(st, n \div 2), LAMBDA mid : StreamLoop(mid, n - n \div 2))

\* The stream bytes from (chunk, offset) up to the first of: an erased byte, a
\* missing chunk, the end of chunk 255
StreamFrom(chunk, offset) ==
    StreamLoop([chunk |-> chunk, from |-> offset, bytes |-> <<>>, stop |-> FALSE],
               MAX_CHUNK).bytes

\* The stream content, from the start of chunk 1
StreamContent == StreamFrom(1, 0)

\* The number of contiguous chunks present, from chunk 1
RECURSIVE ContigLoop(_, _)
ContigLoop(c, n) ==
    IF n = 0 \/ c > MAX_CHUNK THEN c
    ELSE IF n = 1 THEN (IF ChunkAddr(c) # 0 THEN c + 1 ELSE c)
    ELSE Bind(ContigLoop(c, n \div 2),
              LAMBDA d : IF d < c + n \div 2 THEN d ELSE ContigLoop(d, n - n \div 2))

ContigChunks == ContigLoop(1, MAX_CHUNK) - 1

\* s up to and including its first newline (all of s if it has none)
LinePrefix(s) ==
    LET S == {i \in 1..Len(s) : s[i] = NEWLINE}
    IN IF S = {} THEN s ELSE Take(s, CHOOSE i \in S : \A j \in S : i <= j)

\* The position of a handle, counted in bytes from the start of the stream
AbsPos(h) == (h.chunk - 1) * STORAGEFILE_CHUNKSIZE + h.offset

\* The number of live records called name
LiveCount(jr, name) ==
    Cardinality({i \in 1..Len(jr) : jr[i].live /\ jr[i].name = name})

\* The number of entries of a list that equal name
ListCount(list, name) ==
    Cardinality({i \in 1..Len(list) : list[i] = name})

\* The write calls with offset 0 and size 0
\* The bytes, headers included, of the live records not called name, from
\* record i on
RECURSIVE OtherBytes(_, _, _)
OtherBytes(jr, name, i) ==
    IF i > Len(jr) THEN 0
    ELSE (IF jr[i].live /\ jr[i].name # name THEN HeaderSize + jr[i].size ELSE 0)
         + OtherBytes(jr, name, i + 1)

PlainWrites ==
    {w \in StoreWrites : ~jsvIsObject(w.data) /\ w.offset = 0 /\ w.size = 0}

\* The journal record r is a chunk record, chunk 1..255, of the stream called name
IsChunkOf(r, name) == \E c \in 1..MAX_CHUNK : r.name = ChunkName(name, c)

\* From journal jr to journal jr2 no record changed but chunk records of the
\* stream called name
EraseFrame(jr, jr2, name) ==
    /\ Len(jr2) = Len(jr)
    /\ \A i \in 1..Len(jr) : ~IsChunkOf(jr[i], name) => jr2[i] = jr[i]

\* The body at addr holds no erased byte
IsFull(addr) == \A k \in 0..(STORAGEFILE_CHUNKSIZE - 1) : mem[addr + k] # ERASED

\* The chunk byte of a chunk record of the stream
ChunkOf(r) == r.name[Len(StreamName) + 1]

\* The number of data bytes at the start of chunk c of the stream (0 if the
\* chunk has no live record)
ChunkDataLen(c) == IF ChunkAddr(c) = 0 THEN 0 ELSE DataEnd(ChunkAddr(c), 0)

\* Chunk c of the stream is live and holds no erased byte
ChunkFull(c) == ChunkAddr(c) # 0 /\ IsFull(ChunkAddr(c))

\* The record name of chunk k of the stream b as the data model has it: b
\* right-padded with zeros in the first N-1 bytes, k in the last byte
PaddedChunkName(b, k) ==
    [i \in 1..JSF_NAME_LEN |->
        IF i <= Len(b) THEN b[i] ELSE IF i = JSF_NAME_LEN THEN k ELSE 0]

-----------------------------------------------------------------------------
(* Claims *)

\* C1: the writes W1..Wn made through one 'w' handle are read back, by a 'r'
\* handle read until read returns nothing, as exactly W1+...+Wn.
C1_RoundTrip == (wonly /\ ReadExhausted) => rlog = expect

\* C2: one write of L bytes, CHUNK_SIZE < L <= 2*CHUNK_SIZE, on a freshly
\* opened 'w' handle succeeds and leaves chunk 1 with the first CHUNK_SIZE bytes
\* and chunk 2 with the rest followed by erased bytes; reading returns all L.
C2_FirstWriteSplits ==
    (/\ f.mode = MODE_W /\ wonly /\ nwrites = 1
     /\ Len(expect) > STORAGEFILE_CHUNKSIZE
     /\ Len(expect) <= 2 * STORAGEFILE_CHUNKSIZE)
    => /\ exception = ""
       /\ ChunkAddr(1) # 0 /\ ChunkAddr(2) # 0
       /\ \A k \in 0..(STORAGEFILE_CHUNKSIZE - 1) :
             /\ ChunkByte(1, k) = expect[k + 1]
             /\ ChunkByte(2, k) = IF STORAGEFILE_CHUNKSIZE + k + 1 <= Len(expect)
                                  THEN expect[STORAGEFILE_CHUNKSIZE + k + 1]
                                  ELSE ERASED
       /\ ReadAll = expect

\* C3: a handle freshly opened with mode 'a' has chunk = T div CHUNK_SIZE + 1
\* and offset = T mod CHUNK_SIZE, T the number of data bytes stored.
C3_AppendResumes ==
    LET h == jswrap_storage_open(journal, mem, StreamName, MODE_A).f
    IN /\ h.chunk = (StoredBytes \div STORAGEFILE_CHUNKSIZE) + 1
       /\ h.offset = StoredBytes % STORAGEFILE_CHUNKSIZE

\* C4 as stated: read on a 'r' handle returns the next min(len, R) bytes from
\* the handle's (chunk, offset), advances the position by the number of bytes
\* returned and never returns an erased byte.
C4_ReadNext ==
    f.mode = MODE_R =>
      \A len \in ReadLens :
        LET r == jswrap_storagefile_read(journal, mem, f, len)
        IN /\ r.result = Take(StreamFrom(f.chunk, f.offset), len)
           /\ AbsPos(r.f) = AbsPos(f) + Len(r.result)
           /\ \A i \in 1..Len(r.result) : r.result[i] # ERASED

\* C4 amended: a 'r' handle with addr = 0 is at end of file and reads nothing;
\* otherwise read returns the next min(len, R) bytes from (chunk, offset),
\* never an erased byte, and advances the position by the number of bytes
\* returned, except that a read reaching the end of chunk 255 while wanting
\* more leaves chunk = 255, offset = 0 and addr = 0.
C4_ReadNextOrEof ==
    f.mode = MODE_R =>
      \A len \in ReadLens :
        LET r == jswrap_storagefile_read(journal, mem, f, len)
            n == Len(r.result)
        IN /\ r.result = IF f.addr = 0 THEN <<>>
                         ELSE Take(StreamFrom(f.chunk, f.offset), len)
           /\ IF f.addr # 0 /\ len > n /\ AbsPos(f) + n = MAX_CHUNK * STORAGEFILE_CHUNKSIZE
              THEN r.f = [f EXCEPT !.chunk = MAX_CHUNK, !.offset = 0, !.addr = 0]
              ELSE AbsPos(r.f) = AbsPos(f) + n /\ r.f.mode = f.mode
           /\ \A i \in 1..n : r.result[i] # ERASED

\* A read has crossed from chunk 1 into chunk 2
C4_Witness ==
    /\ op = "read" /\ exception = ""
    /\ f.mode = MODE_R /\ f.chunk = 2 /\ f.addr # 0 /\ f.offset > 0
    /\ Len(rlog) > STORAGEFILE_CHUNKSIZE

\* C5: readLine on a 'r' handle returns the stream bytes from the current
\* position through the first newline, or to the end of the stream if there is
\* none; a newline is only the last byte of the result; the bytes returned so
\* far are a prefix of the stream content.
C5_ReadLine ==
    f.mode = MODE_R =>
      LET r == jswrap_storagefile_readLine(journal, mem, f).result
      IN /\ Take(StreamContent, Len(rlog)) = rlog
         /\ r = LinePrefix(SubSeqFrom(StreamContent, Len(rlog)))
         /\ \A i \in 1..(Len(r) - 1) : r[i] # NEWLINE

\* readLine has returned a line longer than the read buffer that crosses from
\* chunk 1 into chunk 2
C5_Witness ==
    /\ op = "readLine" /\ f.mode = MODE_R /\ f.chunk = 2
    /\ Len(rlog) > STORAGEFILE_CHUNKSIZE /\ Len(rlog) > READ_BUF
    /\ rlog = LinePrefix(rlog)
    /\ rlog[Len(rlog)] = NEWLINE

\* C6: read and readLine on a handle whose mode is not 'r', and write on a
\* handle whose mode is neither 'w' nor 'a', raise an error and leave the
\* handle and the flash unchanged; a Closed handle (mode 0) stays Closed.
C6_WrongMode ==
    f # NoFile =>
      /\ f.mode # MODE_R =>
           /\ \A len \in ReadLens :
                LET r == jswrap_storagefile_read(journal, mem, f, len)
                IN r.err # "" /\ r.f = f /\ r.result = <<>>
           /\ LET r == jswrap_storagefile_readLine(journal, mem, f)
              IN r.err # "" /\ r.f = f /\ r.result = <<>>
      /\ f.mode \notin {MODE_W, MODE_A} =>
           \A data \in WriteData :
             LET w == jswrap_storagefile_write(journal, mem, f, data)
             IN w.err # "" /\ w.f = f /\ w.journal = journal /\ w.mem = mem
      /\ f.mode = 0 =>
           /\ jswrap_storagefile_erase(journal, f).f.mode = 0
           /\ jswrap_storagefile_readLine(journal, mem, f).f.mode = 0
           /\ \A len \in ReadLens : jswrap_storagefile_read(journal, mem, f, len).f.mode = 0
           /\ \A data \in WriteData : jswrap_storagefile_write(journal, mem, f, data).f.mode = 0

\* A write was refused on a handle closed by erase
C6_Witness ==
    /\ op = "write" /\ exception = "Can't write in this mode"
    /\ f # NoFile /\ f.mode = 0

\* C7: a read on a 'r' handle after compact() returns the same bytes it would
\* have returned had compact() not run.
C7_ReadAfterCompact ==
    [][(op' = "compact" /\ f.mode = MODE_R) =>
          \A len \in ReadLens :
             jswrap_storagefile_read(journal', mem', f', len).result
               = jswrap_storagefile_read(journal, mem, f, len).result]_vars

\* C8: after open(name, 'w') no chunk record of the stream is live, the handle
\* is {chunk 1, offset 0, addr 0, mode 'w'} and a 'r' handle reads nothing.
C8_OpenWriteEmpties ==
    (op = "open" /\ f.mode = MODE_W) =>
      /\ \A i \in 1..Len(journal) : journal[i].live => ~IsChunkRecord(journal[i])
      /\ f = [name |-> StreamName, chunk |-> 1, offset |-> 0, addr |-> 0, mode |-> MODE_W]
      /\ ReadAll = <<>>

\* open(name, 'w') has returned on a stream that had at least two chunks
C8_Witness ==
    /\ op = "open" /\ f.mode = MODE_W /\ nwrites > 0
    /\ Len(journal) >= 2
    /\ \A i \in 1..Len(journal) : ~journal[i].live

\* C9: erase marks deleted the live records of chunks 1..k, k the number of
\* contiguous chunks present, and no other record; it resets the handle to
\* chunk 1, offset 0, addr 0, mode 0; chunk 1 is then not found; with k = 0 no
\* record changes.
C9_Erase ==
    f # NoFile =>
      LET e == jswrap_storagefile_erase(journal, f)
          k == ContigChunks
      IN /\ Len(e.journal) = Len(journal)
         /\ \A i \in 1..Len(journal) :
               e.journal[i] =
                 IF /\ journal[i].live /\ IsChunkRecord(journal[i])
                    /\ journal[i].name[Len(StreamName) + 1] <= k
                 THEN [journal[i] EXCEPT !.live = FALSE]
                 ELSE journal[i]
         /\ e.f = [f EXCEPT !.chunk = 1, !.offset = 0, !.addr = 0, !.mode = 0]
         /\ jsfFindFile(e.journal, ChunkName(StreamName, 1)) = 0
         /\ k = 0 => e.journal = journal

\* erase has deleted a stream of at least two chunks
C9_Witness ==
    /\ op = "erase" /\ f.mode = 0 /\ f.chunk = 1 /\ f.addr = 0
    /\ Len(journal) >= 2
    /\ \A i \in 1..Len(journal) : ~journal[i].live

\* C10 as stated: a write on a handle in chunk 255 whose data length is at
\* least the bytes remaining in the chunk fails with "File too big!"; every
\* record is a chunk record with a chunk byte in 1..255.
C10_FileTooBig ==
    /\ (f.mode \in {MODE_W, MODE_A} /\ f.chunk = MAX_CHUNK) =>
          \A data \in WriteData \cup {<<>>} :
             Len(data) >= STORAGEFILE_CHUNKSIZE - f.offset =>
                jswrap_storagefile_write(journal, mem, f, data).err = "File too big!"
    /\ \A i \in 1..Len(journal) : IsChunkRecord(journal[i])

\* C10 amended: a write of at least one byte on a handle in chunk 255 whose
\* chunk record exists (addr # 0) and whose data length is at least the bytes
\* remaining fails with "File too big!" and creates no record; every record
\* is a chunk record with a chunk byte in 1..255.
C10_FileTooBigOnExistingChunk ==
    /\ (f.mode \in {MODE_W, MODE_A} /\ f.chunk = MAX_CHUNK /\ f.addr # 0) =>
          \A data \in WriteData :
             (Len(data) > 0 /\ Len(data) >= STORAGEFILE_CHUNKSIZE - f.offset) =>
                LET w == jswrap_storagefile_write(journal, mem, f, data)
                IN w.err = "File too big!" /\ w.journal = journal
    /\ \A i \in 1..Len(journal) : IsChunkRecord(journal[i])

\* A write was refused at the end of chunk 255
C10_Witness ==
    /\ op = "write" /\ exception = "File too big!"
    /\ f.chunk = MAX_CHUNK /\ f.addr # 0

\* C11: open with a name longer than 7 bytes raises an error, returns no
\* handle and leaves the journal unchanged; the chunk records of two over-long
\* names that differ in their 8th byte only are different records.
C11_NameTooLong ==
    /\ \A name \in LongNames : \A mode \in Modes :
          LET o == jswrap_storage_open_modeVar(journal, mem, name, <<mode>>)
          IN o.err # "" /\ o.f = NoFile /\ o.journal = journal
    /\ \A c \in 1..MAX_CHUNK :
          ChunkName(Take(LongNameA, JSF_NAME_LEN), c)
             # ChunkName(Take(LongNameB, JSF_NAME_LEN), c)

\* C12: open with a mode string other than "r", "w", "a" raises an error,
\* returns no handle and leaves the journal as it was: every record that was
\* live stays live.
C12_InvalidMode ==
    \A name \in OpenNames : \A modeVar \in BadModeVars :
       LET o == jswrap_storage_open_modeVar(journal, mem, name, modeVar)
       IN o.err = "Invalid mode" /\ o.f = NoFile /\ o.journal = journal

\* An open with an invalid mode was refused while chunk 1 of the stream is live
C12_Witness ==
    /\ op = "open" /\ exception = "Invalid mode" /\ f = NoFile
    /\ ChunkAddr(1) # 0

C14_PartialFill ==
    \A w \in StoreWrites :
       (/\ ~jsvIsObject(w.data)
        /\ w.offset > 0 /\ w.size = 0
        /\ FindIdx(journal, jsfNameFromVar(w.name)) # 0
        /\ w.offset + Len(w.data.v) <= jsfGetFileSize(journal, jsfNameFromVar(w.name))
        /\ IsErased(mem, jsfFindFile(journal, jsfNameFromVar(w.name)) + w.offset,
                    Len(w.data.v)))
       => LET r == jswrap_storage_write(journal, mem, w.name, w.data, w.offset, w.size)
              before == jswrap_storage_read(journal, mem, w.name).data
              after == jswrap_storage_read(r.journal, r.mem, w.name).data
          IN /\ r.ok
             /\ r.journal = journal
             /\ Len(after) = Len(before)
             /\ \A k \in 1..Len(after) :
                   after[k] = IF k > w.offset /\ k <= w.offset + Len(w.data.v)
                              THEN w.data.v[k - w.offset] ELSE before[k]

\* The three writes of the documentation were made and read("a") returned
\* "Hello World!!!" from the one record
C14_Witness ==
    /\ op = "Storage.read" /\ rlog = Hello \o Space \o World
    /\ Len(rlog) = HelloSize /\ nwrites = 3 /\ Len(journal) = 1

\* C15: compact(), with or without enough RAM, leaves read(name) the same for
\* every name and list() the same list; without enough RAM it leaves the
\* flash as it was.
C15_CompactKeepsData ==
    \A enoughRam \in BOOLEAN :
       LET c == jswrap_storage_compact(journal, mem, enoughRam)
       IN /\ \A name \in StoreNames :
                jswrap_storage_read(c.journal, c.mem, name)
                   = jswrap_storage_read(journal, mem, name)
          /\ \A i \in 1..Len(journal) :
                jsfReadFile(c.journal, c.mem, journal[i].name)
                   = jsfReadFile(journal, mem, journal[i].name)
          /\ jswrap_storage_list(c.journal) = jswrap_storage_list(journal)
          /\ ~enoughRam => (c.journal = journal /\ c.mem = mem)

\* compact() has reclaimed a superseded record of "a": "b" and the newer "a"
\* are the records left, moved to the front
C15_Witness ==
    /\ op = "Storage.compact" /\ nwrites >= 3
    /\ jswrap_storage_list(journal) = <<jsfNameFromVar(FileB), jsfNameFromVar(FileA)>>
    /\ Len(journal) = 2 /\ journal[1].addr = HeaderSize + 1
    /\ jswrap_storage_read(journal, mem, FileA).found

\* C16: erase(handle), and the erase done by open(name, "w"), change no
\* journal record but chunk records (chunk byte 1..255) of the stream: every
\* other live record, a journal file named as the stream is among them, stays
\* live.
C16_EraseFrame ==
    /\ f # NoFile =>
          EraseFrame(journal, jswrap_storagefile_erase(journal, f).journal, f.name)
    /\ EraseFrame(journal, jswrap_storage_open(journal, mem, StreamName, MODE_W).journal,
                  StreamName)

\* C17: on a 'w' or 'a' handle with addr # 0, addr is the body address of the
\* live record of (name, chunk), the body bytes before offset hold data and
\* the body bytes from offset on are all erased.
C17_WriteHandle ==
    (f.mode \in {MODE_W, MODE_A} /\ f.addr # 0) =>
       /\ f.addr = ChunkAddr(f.chunk)
       /\ \A k \in 0..(f.offset - 1) : mem[f.addr + k] # ERASED
       /\ \A k \in f.offset..(STORAGEFILE_CHUNKSIZE - 1) : mem[f.addr + k] = ERASED

\* C18: if chunk k > 1 of the stream is live then chunks 1..k-1 are live and
\* full. Stated for the chunk before each live chunk, which gives all the
\* lower chunks by induction on k.
C18_ChunkContiguity ==
    \A i \in 1..Len(journal) :
       (journal[i].live /\ IsChunkRecord(journal[i]) /\ ChunkOf(journal[i]) > 1) =>
          /\ ChunkAddr(ChunkOf(journal[i]) - 1) # 0
          /\ IsFull(ChunkAddr(ChunkOf(journal[i]) - 1))

\* C19: after every operation a handle has 1 <= chunk <= 255 and
\* 0 <= offset <= CHUNK_SIZE. A write leaves chunk as it is or adds 1 to it,
\* and then the chunk it leaves is full; a read or readLine moves chunk up only
\* over full chunks; whenever chunk has changed, offset is a position in the
\* data of the new chunk.
C19_HandleBounds ==
    [][/\ f' # NoFile =>
             /\ 1 <= f'.chunk /\ f'.chunk <= MAX_CHUNK
             /\ 0 <= f'.offset /\ f'.offset <= STORAGEFILE_CHUNKSIZE
       /\ op' = "write" =>
             /\ f'.chunk = f.chunk \/ f'.chunk = f.chunk + 1
             /\ f'.chunk # f.chunk =>
                   \E c \in {f.chunk} : \E d \in {f'.chunk} :
                      ChunkFull(c)' /\ f'.offset <= ChunkDataLen(d)'
       /\ op' \in {"read", "readLine"} =>
             /\ f'.chunk >= f.chunk
             /\ \A c \in f.chunk..(f'.chunk - 1) : ChunkFull(c)
             /\ f'.chunk # f.chunk => f'.offset <= ChunkDataLen(f'.chunk)
      ]_vars

\* C20: every record the stream operations make is named by the base name
\* right-padded with zeros in the first N-1 bytes and a chunk index in 1..255
\* in the last byte, and the record under a write handle is the one named so
\* for the chunk of the handle.
C20_ChunkRecordName ==
    /\ \A i \in 1..Len(journal) :
          \E k \in 1..MAX_CHUNK : journal[i].name = PaddedChunkName(StreamName, k)
    /\ (f.mode \in {MODE_W, MODE_A} /\ f.addr # 0 /\ op = "write" /\ exception = "") =>
          jsfFindFile(journal, PaddedChunkName(f.name, f.chunk)) = f.addr

\* C21: every stream operation comes to its end: whenever a call is in
\* progress (in the erase loop, the chunk walk or end-of-chunk scan of open
\* 'a', or the loop of read and readLine), it is later no longer in progress.
C21_Termination == (run.pc # "idle") ~> (run.pc = "idle")

\* An erase has come to its end after the chunk counter passed 255: all 255
\* chunks and the journal file named as the stream were live and are deleted
C21_Witness ==
    /\ Idle /\ op = "erase" /\ f.mode = 0
    /\ Len(journal) = MAX_CHUNK + 1
    /\ \A i \in 1..Len(journal) : ~journal[i].live

====
